---- MODULE Spec2Model ----
(***************************************************************************)
(* KNX USB HID Transfer Protocol codecs of xknx                            *)
(* (src/xknx/usb/knx_hid_transfer.py): the 8-octet transfer header, the    *)
(* fixed-width transfer body, and the fragment/reassemble pipeline that    *)
(* is built from them.                                                     *)
(*                                                                         *)
(* Python values are modelled as follows.                                  *)
(*   bytes            a sequence of 0..255                                 *)
(*   None / int / Enum member (the three things an enum-typed attribute    *)
(*                    can hold)  [kind |-> "None" | "int" | <enum name>,   *)
(*                                value |-> n]                             *)
(*   a call that may raise       [exc |-> "None" | <exception name>, ...]  *)
(***************************************************************************)
EXTENDS Integers, Sequences, FiniteSets

VARIABLES
    component,   \* which codec the driver exercises: "header", "body", "frame"
    hdr,         \* the KNXUSBTransferProtocolHeader object
    hdr_src,     \* how hdr was constructed, and from what input
    hdr_out,     \* result of the last hdr.to_knx()
    body,        \* the KNXUSBTransferProtocolBody object
    body_src,    \* how body was constructed, and from what input
    body_out,    \* result of the last body.to_knx(partial)
    body_code,   \* result of the last body.emi_message_code
    body_len,    \* result of the last body.length
    tx_frame,    \* the data-link frame handed to the fragmenter
    reports,     \* reports in flight, in order
    rx,          \* the reassembler
    rx_frame     \* the frame the reassembler delivered

vars == <<component, hdr, hdr_src, hdr_out, body, body_src, body_out,
          body_code, body_len, tx_frame, reports, rx, rx_frame>>

hdr_vars == <<hdr, hdr_src, hdr_out>>
body_vars == <<body, body_src, body_out, body_code, body_len>>
frame_vars == <<tx_frame, reports, rx, rx_frame>>

----------------------------------------------------------------------------
(* Bounds of the exploration                                               *)

\* header buffers of every length 0..MaxHdrBufLen are decoded
MaxHdrBufLen == 10
\* body buffers and payloads of every length 0..MaxBodyBufLen are used
MaxBodyBufLen == 64
\* frames of every length 1..MaxFrameLen are fragmented
MaxFrameLen == 263
\* number of byte patterns the buffers are filled with
NumPatterns == 4

\* octet i (1-based) of pattern k: all 0x00, all 0x11, then arithmetic ramps
PatternByte(k, i) ==
    CASE k = 0 -> 0
      [] k = 1 -> 17
      [] OTHER -> (k * 41 + i * (2 * k - 1)) % 256

PatternBytes(k, n) == [i \in 1..n |-> PatternByte(k, i)]

Patterns == 0..(NumPatterns - 1)

----------------------------------------------------------------------------
(* Python values                                                           *)

None == [kind |-> "None", value |-> 0]
RawInt(v) == [kind |-> "int", value |-> v]
Member(enum, v) == [kind |-> enum, value |-> v]

\* bytes.ljust(width, fillbyte)
ljust(s, width, fill) ==
    IF Len(s) >= width THEN s
    ELSE s \o [i \in 1..(width - Len(s)) |-> fill]

\* s[a:b] of Python, 0-based, b exclusive, clipped to the sequence
Slice(s, a, b) ==
    LET hi == IF b < Len(s) THEN b ELSE Len(s)
    IN  IF a >= hi THEN <<>> ELSE [i \in 1..(hi - a) |-> s[a + i]]

----------------------------------------------------------------------------
(* Field catalogs (xknx.usb.knx_hid_datatypes, xknx.knxip.knxip_enum)      *)

ProtocolIDValues == {1, 2, 3, 15}
EMIIDValues == {1, 2, 3}
CEMIMessageCodeValues ==
    {16, 17, 19, 37, 41, 43, 45, 46, 47, 65, 74, 137, 148,
     240, 241, 245, 246, 247, 248, 249, 250, 251, 252}

\* Enum(value): the member, or ValueError for a value outside the enum
EnumLookup(enum, values, v) ==
    IF v \in values
    THEN [exc |-> "None", val |-> Member(enum, v)]
    ELSE [exc |-> "ValueError", val |-> None]

ProtocolID(v) == EnumLookup("ProtocolID", ProtocolIDValues, v)
EMIID(v) == EnumLookup("EMIID", EMIIDValues, v)
CEMIMessageCode(v) == EnumLookup("CEMIMessageCode", CEMIMessageCodeValues, v)

\* DataSizeBySequenceNumber.of(sequence_number)
DataSizeBySequenceNumber_of(sequence_number) ==
    IF sequence_number = "FIRST_PACKET" THEN 52 ELSE 61

----------------------------------------------------------------------------
(* KNXUSBTransferProtocolHeader                                            *)

expected_byte_count == 8

\* KNXUSBTransferProtocolHeaderData(body_length, protocol_id, emi_id)
HeaderData(body_length, protocol_id, emi_id) ==
    [body_length |-> body_length, protocol_id |-> protocol_id, emi_id |-> emi_id]

\* __init__
Header_new ==
    [protocol_version  |-> 0,
     header_length     |-> 8,
     body_length       |-> 0,
     protocol_id       |-> None,
     emi_id            |-> None,
     manufacturer_code |-> 0,
     valid             |-> FALSE]

\* from_data keeping only the low octet of body_length (faulty variant)
Header_from_data_mod256(data) ==
    [Header_new EXCEPT !.body_length = data.body_length % 256,
                       !.protocol_id = data.protocol_id,
                       !.emi_id = data.emi_id,
                       !.valid = TRUE]

\* from_data
Header_from_data(data) ==
    [Header_new EXCEPT !.body_length = data.body_length,
                       !.protocol_id = data.protocol_id,
                       !.emi_id = data.emi_id,
                       !.valid = TRUE]

\* struct.pack(">BBHBBH", ...): struct.error when a field is out of range
StructPackHeader(v, hl, bl, pid, emi, mc) ==
    IF v \in 0..255 /\ hl \in 0..255 /\ bl \in 0..65535
       /\ pid \in 0..255 /\ emi \in 0..255 /\ mc \in 0..65535
    THEN [exc |-> "None",
          bytes |-> <<v, hl, bl \div 256, bl % 256, pid, emi,
                      mc \div 256, mc % 256>>]
    ELSE [exc |-> "struct.error", bytes |-> <<>>]

\* struct.unpack(">BBHBBH", data) on 8 octets
StructUnpackHeader(data) ==
    [protocol_version  |-> data[1],
     header_length     |-> data[2],
     body_length       |-> data[3] * 256 + data[4],
     protocol_id       |-> data[5],
     emi_id            |-> data[6],
     manufacturer_code |-> data[7] * 256 + data[8]]

\* to_knx with "<BBHBBH" in place of ">BBHBBH" (faulty variant)
Header_to_knx_little_endian(self) ==
    IF self.valid
    THEN LET p == StructPackHeader(self.protocol_version, self.header_length,
                                   self.body_length, self.protocol_id.value,
                                   self.emi_id.value, self.manufacturer_code)
         IN  IF p.exc # "None" THEN p
             ELSE [p EXCEPT !.bytes = <<p.bytes[1], p.bytes[2], p.bytes[4],
                                        p.bytes[3], p.bytes[5], p.bytes[6],
                                        p.bytes[8], p.bytes[7]>>]
    ELSE [exc |-> "None", bytes |-> <<>>]

\* to_knx
Header_to_knx(self) ==
    IF self.valid
    THEN StructPackHeader(self.protocol_version, self.header_length,
                          self.body_length, self.protocol_id.value,
                          self.emi_id.value, self.manufacturer_code)
    ELSE [exc |-> "None", bytes |-> <<>>]

\* _is_valid without the header_length test (faulty variant)
Header_is_valid_version_only(self) ==
    self.protocol_version = 0

\* _is_valid
Header_is_valid(self) ==
    self.protocol_version = 0 /\ self.header_length = 8

\* the tuple assignment of _init: every attribute takes the unpacked integer
Header_assign_unpacked(self, u) ==
    [self EXCEPT !.protocol_version = u.protocol_version,
                 !.header_length = u.header_length,
                 !.body_length = u.body_length,
                 !.protocol_id = RawInt(u.protocol_id),
                 !.emi_id = RawInt(u.emi_id),
                 !.manufacturer_code = u.manufacturer_code]

\* the try block of _init: the first ValueError leaves the rest undone
Header_resolve_enums(self) ==
    LET p == ProtocolID(self.protocol_id.value)
        e == EMIID(self.emi_id.value)
    IN  IF p.exc # "None" THEN self
        ELSE LET s2 == [self EXCEPT !.protocol_id = p.val]
             IN  IF e.exc # "None" THEN s2
                 ELSE LET s3 == [s2 EXCEPT !.emi_id = e.val]
                      IN  [s3 EXCEPT !.valid = Header_is_valid(s3)]

\* _init rejecting only buffers shorter than 8 octets (faulty variant)
Header_init_at_least(self, data) ==
    IF Len(data) < expected_byte_count THEN self
    ELSE Header_resolve_enums(
             Header_assign_unpacked(self, StructUnpackHeader(data)))

\* _init
Header_init(self, data) ==
    IF Len(data) # expected_byte_count THEN self
    ELSE Header_resolve_enums(
             Header_assign_unpacked(self, StructUnpackHeader(data)))

\* from_knx
Header_from_knx(data) == Header_init(Header_new, data)

----------------------------------------------------------------------------
(* KNXUSBTransferProtocolBody                                              *)

\* self._max_bytes, self._max_bytes_partial of __init__
max_bytes == DataSizeBySequenceNumber_of("FIRST_PACKET")
max_bytes_partial == DataSizeBySequenceNumber_of("SECOND_PACKET")

\* KNXUSBTransferProtocolBodyData(data, partial)
BodyData(data, partial) == [data |-> data, partial |-> partial]

\* __init__; has_data = FALSE stands for self._data is None
Body_new ==
    [data     |-> <<>>,
     has_data |-> FALSE,
     valid    |-> FALSE,
     partial  |-> FALSE]

\* from_data applying the continuation limit to both kinds (faulty variant)
Body_from_data_one_limit(data) ==
    LET obj == [Body_new EXCEPT !.partial = data.partial]
    IN  IF Len(data.data) <= max_bytes_partial
        THEN [obj EXCEPT !.data = data.data, !.has_data = TRUE, !.valid = TRUE]
        ELSE obj

\* from_data
Body_from_data(data) ==
    LET obj == [Body_new EXCEPT !.partial = data.partial]
    IN  IF Len(data.data) <= max_bytes_partial /\ data.partial
        THEN [obj EXCEPT !.data = data.data, !.has_data = TRUE, !.valid = TRUE]
        ELSE IF Len(data.data) <= max_bytes /\ ~data.partial
        THEN [obj EXCEPT !.data = data.data, !.has_data = TRUE, !.valid = TRUE]
        ELSE obj

\* _init accepting every length from 52 to 61 (faulty variant)
Body_init_range(self, data) ==
    IF Len(data) < max_bytes \/ Len(data) > max_bytes_partial THEN self
    ELSE [self EXCEPT !.data = data, !.has_data = TRUE, !.valid = TRUE]

\* _init
Body_init(self, data) ==
    IF Len(data) \notin {max_bytes, max_bytes_partial} THEN self
    ELSE [self EXCEPT !.data = data, !.has_data = TRUE, !.valid = TRUE]

\* from_knx
Body_from_knx(data) == Body_init(Body_new, data)

\* struct.pack(f"<{len(data)}s", data): the octets unchanged
StructPackBytes(data) == data

\* to_knx without the ljust padding (faulty variant)
Body_to_knx_unpadded(self, partial) ==
    IF self.valid THEN StructPackBytes(self.data) ELSE <<>>

\* to_knx
Body_to_knx(self, partial) ==
    IF self.valid
    THEN LET data_length == IF partial THEN max_bytes_partial ELSE max_bytes
             data == ljust(self.data, data_length, 0)
         IN  StructPackBytes(data)
    ELSE <<>>

\* emi_message_code: len(None) raises TypeError, CEMIMessageCode(x) raises
\* ValueError for an undefined code
Body_emi_message_code(self) ==
    IF ~self.partial
    THEN IF ~self.has_data THEN [exc |-> "TypeError", val |-> None]
         ELSE IF Len(self.data) > 0 THEN CEMIMessageCode(self.data[1])
         ELSE [exc |-> "None", val |-> None]
    ELSE [exc |-> "None", val |-> None]

\* length
Body_length(self) ==
    IF self.has_data /\ Len(self.data) > 0 THEN Len(self.data) ELSE 0

----------------------------------------------------------------------------
(* Frame fragmenter and reassembler, built from the two codecs             *)

\* the protocol and EMI format the fragmented frames are sent with
KNX_TUNNEL == Member("ProtocolID", 1)
COMMON_EMI == Member("EMIID", 3)

\* number of reports a frame of n octets takes
ReportCount(n) ==
    IF n <= max_bytes THEN 1
    ELSE 1 + ((n - max_bytes) + max_bytes_partial - 1) \div max_bytes_partial

\* report k (1-based) of frame f: the first carries the header and up to
\* max_bytes octets, each later one up to max_bytes_partial octets
FragmentReport(f, protocol_id, emi_id, k) ==
    IF k = 1
    THEN [sequence_number |-> 1,
          header |-> Header_to_knx(Header_from_data(
                         HeaderData(Len(f), protocol_id, emi_id))).bytes,
          body   |-> Body_to_knx(Body_from_data(
                         BodyData(Slice(f, 0, max_bytes), FALSE)), FALSE)]
    ELSE LET lo == max_bytes + (k - 2) * max_bytes_partial
         IN  [sequence_number |-> k,
              header |-> <<>>,
              body   |-> Body_to_knx(Body_from_data(
                             BodyData(Slice(f, lo, lo + max_bytes_partial), TRUE)),
                             TRUE)]

\* the ordered reports of frame f; none at all for a frame too large
Fragmenter(f, protocol_id, emi_id) ==
    IF Len(f) > 65535 THEN <<>>
    ELSE [k \in 1..ReportCount(Len(f)) |->
              FragmentReport(f, protocol_id, emi_id, k)]

Reassembler_new ==
    [state |-> "Idle", body_length |-> 0, buf |-> <<>>, next_seq |-> 1,
     failed |-> FALSE]

NoFrame == [present |-> FALSE, data |-> <<>>]

\* the reassembler after adding payload to a transfer of body_length octets,
\* and the frame it delivers once body_length octets are there
Accumulate(body_length, buf, seq) ==
    IF Len(buf) >= body_length
    THEN [rx    |-> Reassembler_new,
          frame |-> [present |-> TRUE, data |-> Slice(buf, 0, body_length)]]
    ELSE [rx    |-> [state |-> "Collecting", body_length |-> body_length,
                     buf |-> buf, next_seq |-> seq + 1, failed |-> FALSE],
          frame |-> NoFrame]

ReassemblerFailed ==
    [rx |-> [Reassembler_new EXCEPT !.failed = TRUE], frame |-> NoFrame]

\* on_report_received: the reassembler and the frame delivered, if any
OnReportReceived(r, report) ==
    IF r.state = "Idle"
    THEN IF report.sequence_number # 1 THEN ReassemblerFailed
         ELSE LET h == Header_from_knx(report.header)
                  b == Body_from_knx(report.body)
              IN  IF ~h.valid \/ ~b.valid THEN ReassemblerFailed
                  ELSE Accumulate(h.body_length, b.data, 1)
    ELSE IF report.sequence_number # r.next_seq THEN ReassemblerFailed
         ELSE LET b == Body_from_knx(report.body)
              IN  IF ~b.valid THEN ReassemblerFailed
                  ELSE Accumulate(r.body_length, r.buf \o b.data,
                                  report.sequence_number)

----------------------------------------------------------------------------
(* Inputs                                                                  *)

\* header buffers: every length 0..MaxHdrBufLen in every pattern, and
\* 8-octet buffers with each field taken from values around its limits
HeaderFieldBuffers ==
    { <<v, hl, b1, b2, pid, emi, 0, m2>> :
        v \in {0, 1}, hl \in {8, 7}, b1 \in {0, 1, 255}, b2 \in {0, 7, 255},
        pid \in {0, 1, 2, 3, 4, 15, 255}, emi \in {0, 1, 2, 3, 4}, m2 \in {0, 9} }

HeaderBuffers ==
    { PatternBytes(k, n) : k \in Patterns, n \in 0..MaxHdrBufLen }
    \cup HeaderFieldBuffers

HeaderDataInputs ==
    { HeaderData(bl, Member("ProtocolID", pid), Member("EMIID", emi)) :
        bl \in {0, 1, 52, 53, 255, 256, 263, 65535, 65536},
        pid \in ProtocolIDValues, emi \in EMIIDValues }

\* payloads and body buffers: every length 0..MaxBodyBufLen in every pattern
BodyBuffers == { PatternBytes(k, n) : k \in Patterns, n \in 0..MaxBodyBufLen }

Frames == { PatternBytes(k, n) : k \in Patterns, n \in 1..MaxFrameLen }

----------------------------------------------------------------------------
(* State: each behaviour follows one object of the component from its     *)
(* construction on (the classmethods build a new object on every call)     *)

NoHeaderData == HeaderData(0, None, None)
NoBodyData == BodyData(<<>>, FALSE)

HdrSrc(how, buf, data) == [how |-> how, buf |-> buf, data |-> data]
BodySrc(how, buf, data, arg) ==
    [how |-> how, buf |-> buf, data |-> data, arg |-> arg]

NoHdrOut == [called |-> FALSE, exc |-> "None", bytes |-> <<>>]
NoBodyOut == [called |-> FALSE, partial |-> FALSE, bytes |-> <<>>]
NoBodyCode == [called |-> FALSE, exc |-> "None", val |-> None]
NoBodyLen == [called |-> FALSE, val |-> 0]

Init ==
    /\ component \in {"header", "body", "frame"}
    /\ hdr = Header_new
    /\ hdr_src = HdrSrc("new", <<>>, NoHeaderData)
    /\ hdr_out = NoHdrOut
    /\ body = Body_new
    /\ body_src = BodySrc("new", <<>>, NoBodyData, FALSE)
    /\ body_out = NoBodyOut
    /\ body_code = NoBodyCode
    /\ body_len = NoBodyLen
    /\ tx_frame = <<>>
    /\ reports = <<>>
    /\ rx = Reassembler_new
    /\ rx_frame = NoFrame

----------------------------------------------------------------------------
(* Header operations                                                       *)

\* hdr = KNXUSBTransferProtocolHeader.from_data(data)
HeaderFromData ==
    /\ component = "header"
    /\ hdr_src.how = "new"
    /\ \E data \in HeaderDataInputs :
         /\ hdr' = Header_from_data(data)
         /\ hdr_src' = HdrSrc("from_data", <<>>, data)
    /\ hdr_out' = NoHdrOut
    /\ UNCHANGED <<component, body_vars, frame_vars>>

\* hdr = KNXUSBTransferProtocolHeader.from_knx(data)
HeaderFromKnx ==
    /\ component = "header"
    /\ hdr_src.how = "new"
    /\ \E data \in HeaderBuffers :
         /\ hdr' = Header_from_knx(data)
         /\ hdr_src' = HdrSrc("from_knx", data, NoHeaderData)
    /\ hdr_out' = NoHdrOut
    /\ UNCHANGED <<component, body_vars, frame_vars>>

\* hdr.to_knx()
HeaderToKnx ==
    /\ component = "header"
    /\ ~hdr_out.called
    /\ LET r == Header_to_knx(hdr)
       IN  hdr_out' = [called |-> TRUE, exc |-> r.exc, bytes |-> r.bytes]
    /\ UNCHANGED <<component, hdr, hdr_src, body_vars, frame_vars>>

\* hdr = KNXUSBTransferProtocolHeader.from_knx(hdr.to_knx())
HeaderDecodeOutput ==
    /\ component = "header"
    /\ hdr_out.called
    /\ hdr_out.exc = "None"
    /\ hdr' = Header_from_knx(hdr_out.bytes)
    /\ hdr_src' = IF hdr_src.how = "from_data"
                  THEN HdrSrc("roundtrip", hdr_out.bytes, hdr_src.data)
                  ELSE HdrSrc("from_knx", hdr_out.bytes, NoHeaderData)
    /\ hdr_out' = NoHdrOut
    /\ UNCHANGED <<component, body_vars, frame_vars>>

----------------------------------------------------------------------------
(* Body operations                                                         *)

\* body = KNXUSBTransferProtocolBody.from_data(data)
BodyFromData ==
    /\ component = "body"
    /\ body_src.how = "new"
    /\ \E payload \in BodyBuffers, partial \in BOOLEAN :
         /\ body' = Body_from_data(BodyData(payload, partial))
         /\ body_src' = BodySrc("from_data", <<>>, BodyData(payload, partial), FALSE)
    /\ body_out' = NoBodyOut
    /\ body_code' = NoBodyCode
    /\ body_len' = NoBodyLen
    /\ UNCHANGED <<component, hdr_vars, frame_vars>>

\* body = KNXUSBTransferProtocolBody.from_knx(data)
BodyFromKnx ==
    /\ component = "body"
    /\ body_src.how = "new"
    /\ \E data \in BodyBuffers :
         /\ body' = Body_from_knx(data)
         /\ body_src' = BodySrc("from_knx", data, NoBodyData, FALSE)
    /\ body_out' = NoBodyOut
    /\ body_code' = NoBodyCode
    /\ body_len' = NoBodyLen
    /\ UNCHANGED <<component, hdr_vars, frame_vars>>

\* body.to_knx(partial)
BodyToKnx ==
    /\ component = "body"
    /\ ~body_out.called
    /\ \E partial \in BOOLEAN :
         body_out' = [called |-> TRUE, partial |-> partial,
                      bytes |-> Body_to_knx(body, partial)]
    /\ UNCHANGED <<component, body, body_src, body_code, body_len,
                   hdr_vars, frame_vars>>

\* body.emi_message_code
BodyEmiMessageCode ==
    /\ component = "body"
    /\ ~body_code.called
    /\ LET r == Body_emi_message_code(body)
       IN  body_code' = [called |-> TRUE, exc |-> r.exc, val |-> r.val]
    /\ UNCHANGED <<component, body, body_src, body_out, body_len,
                   hdr_vars, frame_vars>>

\* body.length
BodyLength ==
    /\ component = "body"
    /\ ~body_len.called
    /\ body_len' = [called |-> TRUE, val |-> Body_length(body)]
    /\ UNCHANGED <<component, body, body_src, body_out, body_code,
                   hdr_vars, frame_vars>>

\* body = KNXUSBTransferProtocolBody.from_knx(body.to_knx(partial))
BodyDecodeOutput ==
    /\ component = "body"
    /\ body_out.called
    /\ body' = Body_from_knx(body_out.bytes)
    /\ body_src' = IF body_src.how = "from_data"
                   THEN BodySrc("roundtrip", body_out.bytes, body_src.data,
                                body_out.partial)
                   ELSE BodySrc("from_knx", body_out.bytes, NoBodyData, FALSE)
    /\ body_out' = NoBodyOut
    /\ body_code' = NoBodyCode
    /\ body_len' = NoBodyLen
    /\ UNCHANGED <<component, hdr_vars, frame_vars>>

----------------------------------------------------------------------------
(* Frame operations                                                        *)

\* a frame is fragmented and its reports handed to the transport, for a
\* fresh reassembler
Fragment ==
    /\ component = "frame"
    /\ tx_frame = <<>>
    /\ \E f \in Frames :
         /\ tx_frame' = f
         /\ reports' = Fragmenter(f, KNX_TUNNEL, COMMON_EMI)
    /\ rx' = Reassembler_new
    /\ rx_frame' = NoFrame
    /\ UNCHANGED <<component, hdr_vars, body_vars>>

\* the transport delivers the next report to the reassembler
Receive ==
    /\ component = "frame"
    /\ reports # <<>>
    /\ LET r == OnReportReceived(rx, Head(reports))
       IN  /\ rx' = r.rx
           /\ rx_frame' = r.frame
    /\ reports' = Tail(reports)
    /\ UNCHANGED <<component, tx_frame, hdr_vars, body_vars>>

Next ==
    \/ HeaderFromData
    \/ HeaderFromKnx
    \/ HeaderToKnx
    \/ HeaderDecodeOutput
    \/ BodyFromData
    \/ BodyFromKnx
    \/ BodyToKnx
    \/ BodyEmiMessageCode
    \/ BodyLength
    \/ BodyDecodeOutput
    \/ Fragment
    \/ Receive

Spec == Init /\ [][Next]_vars

----------------------------------------------------------------------------
(* Properties                                                              *)

\* the accessors protocol_id and emi_id
Header_protocol_id(self) == self.protocol_id
Header_emi_id(self) == self.emi_id

\* the capacities the specification states for a first and a continuation
\* segment
Capacity(partial) == IF partial THEN 61 ELSE 52

IsZeroPadded(bytes, payload, width) ==
    /\ Len(bytes) = width
    /\ Len(payload) <= width
    /\ \A i \in 1..Len(payload) : bytes[i] = payload[i]
    /\ \A i \in (Len(payload) + 1)..width : bytes[i] = 0

HeaderDecoded == hdr_src.how \in {"from_knx", "roundtrip"}
BodyDecoded == body_src.how \in {"from_knx", "roundtrip"}

\* C1: a header decoded by from_knx from buffer b is valid exactly when b
\* has 8 octets, its version octet is 0, its header-length octet is 8 and
\* its protocol_id and emi_id octets are defined enum values.
C1_HeaderValidIff ==
    HeaderDecoded =>
        (hdr.valid <=>
            /\ Len(hdr_src.buf) = 8
            /\ hdr_src.buf[1] = 0
            /\ hdr_src.buf[2] = 8
            /\ hdr_src.buf[5] \in ProtocolIDValues
            /\ hdr_src.buf[6] \in EMIIDValues)

C1_Witness ==
    /\ hdr_src.how = "from_knx"
    /\ Len(hdr_src.buf) = 8
    /\ hdr_src.buf[5] \in ProtocolIDValues
    /\ hdr_src.buf[6] \in EMIIDValues
    /\ hdr_src.buf[1] = 0
    /\ hdr_src.buf[2] = 7
    /\ ~hdr.valid

\* C2: a header decoded from a buffer of any length other than 8 is invalid,
\* keeps every construction default, and serializes to the empty byte string.
C2_HeaderWrongLengthFailsClosed ==
    (HeaderDecoded /\ Len(hdr_src.buf) # 8) =>
        /\ ~hdr.valid
        /\ hdr.protocol_version = 0
        /\ hdr.header_length = 8
        /\ hdr.body_length = 0
        /\ Header_protocol_id(hdr) = None
        /\ Header_emi_id(hdr) = None
        /\ hdr.manufacturer_code = 0
        /\ hdr_out.called => (hdr_out.exc = "None" /\ hdr_out.bytes = <<>>)

C2_Witness ==
    /\ hdr_src.how = "from_knx"
    /\ Len(hdr_src.buf) = 9
    /\ hdr_src.buf[1] = 0
    /\ hdr_src.buf[2] = 0
    /\ hdr_out.called
    /\ hdr_out.bytes = <<>>

\* C3: a header built by from_data with body_length in 0..65535 is valid
\* with version 0, header length 8 and manufacturer code 0; to_knx gives the
\* 8 big-endian octets version|header_length|body_length|protocol_id|emi_id|
\* manufacturer_code; decoding them gives a valid header with the same
\* body_length, protocol_id and emi_id.
C3_HeaderRoundTrip ==
    LET d == hdr_src.data
    IN  (hdr_src.how \in {"from_data", "roundtrip"} /\ d.body_length \in 0..65535) =>
            /\ hdr.valid
            /\ hdr.protocol_version = 0
            /\ hdr.header_length = 8
            /\ hdr.manufacturer_code = 0
            /\ hdr.body_length = d.body_length
            /\ Header_protocol_id(hdr) = d.protocol_id
            /\ Header_emi_id(hdr) = d.emi_id
            /\ hdr_out.called =>
                 /\ hdr_out.exc = "None"
                 /\ hdr_out.bytes = <<0, 8, d.body_length \div 256,
                                      d.body_length % 256, d.protocol_id.value,
                                      d.emi_id.value, 0, 0>>
            /\ hdr_src.how = "roundtrip" =>
                 hdr_src.buf = <<0, 8, d.body_length \div 256,
                                 d.body_length % 256, d.protocol_id.value,
                                 d.emi_id.value, 0, 0>>

C3_Witness ==
    /\ hdr_src.how = "roundtrip"
    /\ hdr_src.data.body_length = 263
    /\ hdr.valid
    /\ hdr.body_length = 263
    /\ hdr_src.buf[3] = 1
    /\ hdr_src.buf[4] = 7

\* C4: a body built by from_data is valid exactly when the payload is within
\* the capacity of its segment kind (52 first, 61 continuation); an
\* over-capacity body stores no payload and to_knx returns the empty byte
\* string for either argument.
C4_BodyFromDataCapacity ==
    body_src.how = "from_data" =>
        /\ body.valid <=>
             Len(body_src.data.data) <= Capacity(body_src.data.partial)
        /\ body.valid => (body.has_data /\ body.data = body_src.data.data)
        /\ ~body.valid =>
             /\ ~body.has_data
             /\ body_out.called => body_out.bytes = <<>>

C4_Witness ==
    /\ body_src.how = "from_data"
    /\ ~body_src.data.partial
    /\ Len(body_src.data.data) = 53
    /\ ~body.valid
    /\ body_out.called
    /\ body_out.partial

\* C5: a body decoded by from_knx is valid exactly when the buffer has 52 or
\* 61 octets; any other length gives an invalid body with no payload and
\* length 0.
C5_BodyFromKnxLength ==
    BodyDecoded =>
        /\ body.valid <=> Len(body_src.buf) \in {52, 61}
        /\ body.valid => (body.has_data /\ body.data = body_src.buf)
        /\ ~body.valid =>
             /\ ~body.has_data
             /\ body_len.called => body_len.val = 0

C5_Witness ==
    /\ body_src.how = "from_knx"
    /\ Len(body_src.buf) = 53
    /\ ~body.valid
    /\ body_len.called

\* C6: for every valid body and either argument, to_knx(is_partial) is
\* exactly capacity(is_partial) octets: the payload followed by zero octets.
C6_BodyToKnxFixedWidth ==
    (body.valid /\ body_out.called) =>
        IsZeroPadded(body_out.bytes, body.data, Capacity(body_out.partial))

\* C7: decoding to_knx(partial) of a body built from payload p within
\* capacity(partial) gives a valid body of exactly capacity(partial) octets:
\* p followed by zero octets.
C7_BodyRoundTrip ==
    LET d == body_src.data
    IN  (/\ body_src.how = "roundtrip"
         /\ body_src.arg = d.partial
         /\ Len(d.data) <= Capacity(d.partial)) =>
            /\ body.valid
            /\ body.has_data
            /\ IsZeroPadded(body.data, d.data, Capacity(d.partial))

C7_Witness ==
    /\ body_src.how = "roundtrip"
    /\ body_src.arg
    /\ body_src.data.partial
    /\ Len(body_src.data.data) = 53
    /\ body_src.data.data[53] # 0
    /\ body.valid
    /\ Len(body.data) = 61

\* a body that came from a continuation report: built with partial = true,
\* or decoded from a buffer of continuation width
IsContinuation ==
    \/ body_src.how = "from_data" /\ body_src.data.partial
    \/ BodyDecoded /\ Len(body_src.buf) = 61

\* C8: for a body obtained from from_data or from_knx, emi_message_code
\* yields a message code only when the body is not a continuation segment
\* and has a non-empty payload; otherwise it is None and nothing is raised.
C8_EmiMessageCodeOnlyFirstSegment ==
    LET first_nonempty ==
            ~IsContinuation /\ body.has_data /\ Len(body.data) > 0
    IN  (body_src.how # "new" /\ body_code.called) =>
            /\ body_code.val # None => first_nonempty
            /\ ~first_nonempty => (body_code.val = None /\ body_code.exc = "None")

\* C9: a frame of 1..263 octets, fragmented into reports with the header and
\* body codecs and fed in order to a fresh reassembler, is delivered
\* bit-identical.
C9_FragmentReassembleRoundTrip ==
    (tx_frame # <<>> /\ reports = <<>>) =>
        /\ rx_frame.present
        /\ rx_frame.data = tx_frame
        /\ ~rx.failed

C9_Witness ==
    /\ Len(tx_frame) = 263
    /\ tx_frame[263] # 0
    /\ reports = <<>>
    /\ rx_frame.present
    /\ Len(rx_frame.data) = 263

\* C10: the protocol_id and emi_id accessors of a decoded header return None
\* or a member of their enum, never a raw integer.
C10_AccessorsNeverRawInt ==
    HeaderDecoded =>
        /\ Header_protocol_id(hdr).kind \in {"None", "ProtocolID"}
        /\ Header_emi_id(hdr).kind \in {"None", "EMIID"}

====
